---- MODULE Spec2Model ----
(***************************************************************************)
(* Model of examples/stm32l496g-discovery/client_rtos/src/main.c: the      *)
(* start-up thread init_thread, the connection callback conn_callback_func *)
(* and the stack callback esp_callback_func of the ESP-AT client example.  *)
(*                                                                         *)
(* A callback runs to completion on the ESP stack's processing thread, so  *)
(* one invocation is one action.  The library calls it makes are kept, in  *)
(* program order, in lastCall.ops.  init_thread runs on its own thread and *)
(* is modelled one library call per action.                                *)
(***************************************************************************)
EXTENDS Naturals, Sequences, FiniteSets

(* ------------------------------ bounds -------------------------------- *)

\* Number of connection handles the modem can hand out.
NumHandles == 2

\* Number of distinct receive buffers (pbufs) the stack can deliver.
NumBufs == 2

\* Number of callback invocations that are followed.
MaxCalls == 3

\* Number of times the access point refuses before the station call returns.
MaxApTries == 2

(* --------------------------- values of the code ------------------------ *)

NULL == 0

espOK == "espOK"

espERR == "espERR"

Results == {espOK, espERR}

\* The result of a call whose return value the code does not look at.
Discarded == "discarded"

NoRes == "none"

Handles == 1..NumHandles

Bufs == 1..NumBufs

Conns == Handles \cup {NULL}

ESP_EVT_CONN_ACTIVE == "ESP_EVT_CONN_ACTIVE"

ESP_EVT_CONN_CLOSED == "ESP_EVT_CONN_CLOSED"

ESP_EVT_CONN_DATA_SENT == "ESP_EVT_CONN_DATA_SENT"

ESP_EVT_CONN_DATA_RECV == "ESP_EVT_CONN_DATA_RECV"

ESP_EVT_AT_VERSION_NOT_SUPPORTED == "ESP_EVT_AT_VERSION_NOT_SUPPORTED"

ESP_EVT_INIT_FINISH == "ESP_EVT_INIT_FINISH"

ESP_EVT_RESET_FINISH == "ESP_EVT_RESET_FINISH"

ESP_EVT_RESET == "ESP_EVT_RESET"

\* Any event type that neither switch names (the default: label).
ESP_EVT_OTHER == "ESP_EVT_OTHER"

ConnEvtTypes ==
    {ESP_EVT_CONN_ACTIVE, ESP_EVT_CONN_CLOSED, ESP_EVT_CONN_DATA_SENT,
     ESP_EVT_CONN_DATA_RECV}

FwEvtTypes ==
    {ESP_EVT_AT_VERSION_NOT_SUPPORTED, ESP_EVT_INIT_FINISH,
     ESP_EVT_RESET_FINISH, ESP_EVT_RESET}

\* The request payload and the length passed to esp_conn_send.
req_data == "GET / HTTP/1.1\r\nHost: example.com\r\nConnection: close\r\n\r\n"

\* Firmware versions the getters may report.
Versions == {<<2, 0, 0>>, <<1, 5, 0>>}

NoVer == <<>>

(* ------------------------------ events -------------------------------- *)

Evt(t, c, b, f) == [type |-> t, conn |-> c, pbuf |-> b, forced |-> f]

ConnEvents ==
    {Evt(t, c, NULL, FALSE) :
        t \in {ESP_EVT_CONN_ACTIVE, ESP_EVT_CONN_DATA_SENT, ESP_EVT_OTHER},
        c \in Conns}
    \cup {Evt(ESP_EVT_CONN_CLOSED, c, NULL, f) : c \in Conns, f \in BOOLEAN}
    \cup {Evt(ESP_EVT_CONN_DATA_RECV, c, b, FALSE) : c \in Conns, b \in Bufs}

FwEvents == {Evt(t, NULL, NULL, FALSE) : t \in FwEvtTypes}

Events == ConnEvents \cup FwEvents

esp_evt_get_type(evt) == evt.type

esp_conn_get_from_evt(evt) == evt.conn

esp_evt_conn_closed_is_forced(evt) == evt.forced

esp_evt_conn_data_recv_get_buff(evt) == evt.pbuf

(* --------------------------- library calls ----------------------------- *)

\* One library call made by the code: its name, the connection and buffer
\* it is given, the result the code sees, and the text or payload it carries.
Op(o, c, b, r, n, v) ==
    [op |-> o, conn |-> c, pbuf |-> b, res |-> r, note |-> n, ver |-> v]

printf(msg) == Op("printf", NULL, NULL, Discarded, msg, NoVer)

printf_ver(msg, v) == Op("printf", NULL, NULL, Discarded, msg, v)

esp_conn_send(conn, data, res) == Op("esp_conn_send", conn, NULL, res, data, NoVer)

esp_conn_close(conn) == Op("esp_conn_close", conn, NULL, Discarded, "", NoVer)

esp_conn_recved(conn, pbuf) == Op("esp_conn_recved", conn, pbuf, Discarded, "", NoVer)

esp_pbuf_length(pbuf) == Op("esp_pbuf_length", NULL, pbuf, Discarded, "", NoVer)

esp_get_min_at_fw_version(v) ==
    Op("esp_get_min_at_fw_version", NULL, NULL, Discarded, "", v)

esp_get_current_at_fw_version(v) ==
    Op("esp_get_current_at_fw_version", NULL, NULL, Discarded, "", v)

esp_init(res) == Op("esp_init", NULL, NULL, res, "esp_callback_func", NoVer)

\* The station call is entered with no result yet and left with one the
\* code does not look at.
connect_to_preferred_access_point(res) ==
    Op("connect_to_preferred_access_point", NULL, NULL, res, "", NoVer)

esp_conn_start(res) == Op("esp_conn_start", NULL, NULL, res, "example.com:80", NoVer)

osThreadTerminate == Op("osThreadTerminate", NULL, NULL, Discarded, "", NoVer)

\* The calls that ask the modem transport to do something.
RequestOps == {"esp_conn_start", "esp_conn_send", "esp_conn_close", "esp_conn_recved"}

IsRequest(o) == o.op \in RequestOps

Requests(ops) == SelectSeq(ops, IsRequest)

OpsNamed(ops, name) == SelectSeq(ops, LAMBDA o : o.op = name)

Call(f, e, o, r) == [fn |-> f, evt |-> e, ops |-> o, ret |-> r]

NoCall == Call("none", Evt(ESP_EVT_OTHER, NULL, NULL, FALSE), <<>>, espOK)

(* ------------------------- conn_callback_func -------------------------- *)

\* A handler that repeats the send when it is refused instead of closing.
M_CaseConnActive_Resend(conn, sendRes) ==
    <<printf("Connection active!"), esp_conn_send(conn, req_data, sendRes)>>
    \o (IF sendRes = espOK
          THEN <<printf("Sending request data to server...")>>
          ELSE <<esp_conn_send(conn, req_data, sendRes)>>)

\* A handler that reports a refused send and leaves the connection open.
M_CaseConnActive_NoClose(conn, sendRes) ==
    <<printf("Connection active!"), esp_conn_send(conn, req_data, sendRes)>>
    \o (IF sendRes = espOK
          THEN <<printf("Sending request data to server...")>>
          ELSE <<printf("Cannot send request data to server. Closing connection manually...")>>)

\* case ESP_EVT_CONN_ACTIVE: send the request; close the connection when the
\* send is refused.
CaseConnActive(conn, sendRes) ==
    <<printf("Connection active!"), esp_conn_send(conn, req_data, sendRes)>>
    \o (IF sendRes = espOK
          THEN <<printf("Sending request data to server...")>>
          ELSE <<printf("Cannot send request data to server. Closing connection manually..."),
                 esp_conn_close(conn)>>)

\* A handler that answers a close by the remote side with a close of its own.
M_CaseConnClosed_Close(conn, evt) ==
    IF esp_evt_conn_closed_is_forced(evt)
      THEN <<printf("Connection closed by client!")>>
      ELSE <<printf("Connection closed by remote side!"), esp_conn_close(conn)>>

\* case ESP_EVT_CONN_CLOSED: report who closed.
CaseConnClosed(conn, evt) ==
    IF esp_evt_conn_closed_is_forced(evt)
      THEN <<printf("Connection closed by client!")>>
      ELSE <<printf("Connection closed by remote side!")>>

\* A handler that closes the connection once its request has gone out.
M_CaseDataSent_Close(conn) ==
    <<printf("Data sent successfully...waiting to receive data from remote side..."),
      esp_conn_close(conn)>>

\* case ESP_EVT_CONN_DATA_SENT: report only.
CaseDataSent(conn) ==
    <<printf("Data sent successfully...waiting to receive data from remote side...")>>

\* A handler that notifies the stack a second time after printing.
M_CaseDataRecv_AckTwice(conn, evt) ==
    LET pbuf == esp_evt_conn_data_recv_get_buff(evt)
    IN  <<esp_conn_recved(conn, pbuf), esp_pbuf_length(pbuf),
          printf("Received %d bytes on connection.."), esp_conn_recved(conn, pbuf)>>

\* A handler that prints the length and forgets to notify the stack.
M_CaseDataRecv_NoAck(conn, evt) ==
    LET pbuf == esp_evt_conn_data_recv_get_buff(evt)
    IN  <<esp_pbuf_length(pbuf), printf("Received %d bytes on connection..")>>

\* case ESP_EVT_CONN_DATA_RECV: notify the stack, then print the length.
CaseDataRecv(conn, evt) ==
    LET pbuf == esp_evt_conn_data_recv_get_buff(evt)
    IN  <<esp_conn_recved(conn, pbuf), esp_pbuf_length(pbuf),
          printf("Received %d bytes on connection..")>>

\* A default label that closes the connection on an event it does not know.
M_CaseConnDefault_Close(conn) == <<esp_conn_close(conn)>>

\* default: break
CaseConnDefault(conn) == <<>>

\* The switch of conn_callback_func, entered with a connection.
ConnSwitch(conn, evt, sendRes) ==
    LET t == esp_evt_get_type(evt)
    IN  CASE t = ESP_EVT_CONN_ACTIVE    -> CaseConnActive(conn, sendRes)
          [] t = ESP_EVT_CONN_CLOSED    -> CaseConnClosed(conn, evt)
          [] t = ESP_EVT_CONN_DATA_SENT -> CaseDataSent(conn)
          [] t = ESP_EVT_CONN_DATA_RECV -> CaseDataRecv(conn, evt)
          [] OTHER                      -> CaseConnDefault(conn)

\* A handler that returns the result of its refused send.
M_ConnReturn_SendResult(evt, ops) ==
    IF \E i \in DOMAIN ops : ops[i].op = "esp_conn_send" /\ ops[i].res # espOK
      THEN espERR
      ELSE espOK

\* What conn_callback_func returns once the switch is left.
ConnReturn(evt, ops) == espOK

\* One invocation of conn_callback_func; sendRes is what esp_conn_send
\* answers should the invocation call it.
conn_callback_func(evt, sendRes) ==
    LET conn == esp_conn_get_from_evt(evt)
    IN  IF conn = NULL
          THEN Call("conn_callback_func", evt, <<>>, espERR)
          ELSE LET ops == ConnSwitch(conn, evt, sendRes)
               IN  Call("conn_callback_func", evt, ops, ConnReturn(evt, ops))

(* -------------------------- esp_callback_func -------------------------- *)

\* A handler that, having reported, starts the connection all the same.
M_CaseVersionNotSupported_Start(v_min, v_curr) ==
    <<esp_get_min_at_fw_version(v_min), esp_get_current_at_fw_version(v_curr),
      printf("Current ESP8266 AT version is not supported by library!"),
      printf_ver("Minimum required AT version is: %d.%d.%d", v_min),
      printf_ver("Current AT version is: %d.%d.%d", v_curr),
      esp_conn_start(espOK)>>

\* case ESP_EVT_AT_VERSION_NOT_SUPPORTED: read both versions and print them.
CaseVersionNotSupported(v_min, v_curr) ==
    <<esp_get_min_at_fw_version(v_min), esp_get_current_at_fw_version(v_curr),
      printf("Current ESP8266 AT version is not supported by library!"),
      printf_ver("Minimum required AT version is: %d.%d.%d", v_min),
      printf_ver("Current AT version is: %d.%d.%d", v_curr)>>

\* A default label that hands the event on to conn_callback_func.
M_CaseEspDefault_Forward(evt) ==
    <<Op("conn_callback_func", esp_conn_get_from_evt(evt), NULL, Discarded, "", NoVer)>>

\* default: break
CaseEspDefault(evt) == <<>>

\* One invocation of esp_callback_func; v_min and v_curr are what the version
\* getters report should the invocation call them.
esp_callback_func(evt, v_min, v_curr) ==
    LET t   == esp_evt_get_type(evt)
        ops == CASE t = ESP_EVT_AT_VERSION_NOT_SUPPORTED ->
                        CaseVersionNotSupported(v_min, v_curr)
                 [] t = ESP_EVT_INIT_FINISH  -> <<printf("Library initialized!")>>
                 [] t = ESP_EVT_RESET_FINISH -> <<printf("Device reset sequence finished!")>>
                 [] t = ESP_EVT_RESET        -> <<printf("Device reset detected!")>>
                 [] OTHER                    -> CaseEspDefault(evt)
    IN  Call("esp_callback_func", evt, ops, espOK)

(* ------------------------------ init_thread ---------------------------- *)

\* if (esp_init(esp_callback_func, 1) != espOK) { printf(...); }
StepEspInit(res) ==
    <<esp_init(res)>>
    \o (IF res # espOK THEN <<printf("Cannot initialize ESP-AT Library")>> ELSE <<>>)

\* Where init_thread goes on once esp_init has answered.
AfterEspInit(res) == "connect_ap"

\* if ((res = esp_conn_start(...)) == espOK) { printf } else { printf }
StepConnStart(res) ==
    <<esp_conn_start(res),
      printf(IF res = espOK THEN "Connection to example.com started..."
                            ELSE "Cannot start connection to example.com!")>>

\* A thread that asks again when esp_conn_start fails.
M_AfterConnStart_Retry(res) == IF res = espOK THEN "terminate" ELSE "esp_conn_start"

\* A thread that halts in place, never terminating, when esp_conn_start fails.
M_AfterConnStart_Halt(res) == IF res = espOK THEN "terminate" ELSE "halted"

\* Where init_thread goes on once esp_conn_start has answered.
AfterConnStart(res) == "terminate"

(* -------------------------------- state -------------------------------- *)

VARIABLES
    pc,          \* where init_thread stands
    threadOps,   \* the library calls init_thread has made, in order
    apTries,     \* refusals seen inside connect_to_preferred_access_point, while in it
    nCalls,      \* callback invocations so far
    lastCall,    \* the latest callback invocation: event, calls made, result
    closedSeen,  \* handles for which a closed event has been handled
    rejected,    \* handles on which esp_conn_send was refused
    recvd,       \* per buffer: data-received events given to conn_callback_func
    acked,       \* per buffer: esp_conn_recved calls made
    nReject,     \* connection-active events whose send was refused
    nClose,      \* esp_conn_close calls made
    lastAnswer,  \* what esp_conn_send was set to answer in the latest invocation
    lastPc,      \* where init_thread stood during the latest invocation
    scen,        \* how far the events so far follow the request/response exchange
    trace        \* the requests the callbacks made while they followed it

vars ==
    <<pc, threadOps, apTries, nCalls, lastCall, closedSeen, rejected, recvd,
      acked, nReject, nClose, lastAnswer, lastPc, scen, trace>>

threadVars == <<pc, threadOps, apTries>>

callVars ==
    <<nCalls, lastCall, closedSeen, rejected, recvd, acked, nReject, nClose,
      lastAnswer, lastPc, scen, trace>>

\* The exchange the example is written for, on one handle: connection active
\* with the send accepted, data sent, one buffer received, closed by the
\* remote side.  scen.step counts the events of it seen so far; scen.on falls
\* once an event given to conn_callback_func departs from it.
ScenTypes ==
    <<ESP_EVT_CONN_ACTIVE, ESP_EVT_CONN_DATA_SENT, ESP_EVT_CONN_DATA_RECV,
      ESP_EVT_CONN_CLOSED>>

ScenStart == [on |-> TRUE, conn |-> NULL, pbuf |-> NULL, step |-> 0]

ScenOff == [on |-> FALSE, conn |-> NULL, pbuf |-> NULL, step |-> 0]

\* Event evt, with esp_conn_send answering ans, is the next one of the exchange.
ScenMatches(evt, ans) ==
    /\ scen.on
    /\ evt.conn # NULL
    /\ scen.step < Len(ScenTypes)
    /\ evt.type = ScenTypes[scen.step + 1]
    /\ scen.step = 0 => ans = espOK
    /\ scen.step > 0 => evt.conn = scen.conn
    /\ evt.type = ESP_EVT_CONN_CLOSED => ~evt.forced

ScenAdvance(evt) ==
    [on |-> TRUE, conn |-> evt.conn,
     pbuf |-> IF evt.type = ESP_EVT_CONN_DATA_RECV THEN evt.pbuf ELSE scen.pbuf,
     step |-> scen.step + 1]

\* The result init_thread got from the call named name; NoRes before it.
ResultOf(name) ==
    LET hits == OpsNamed(threadOps, name)
    IN  IF hits = <<>> THEN NoRes ELSE hits[1].res

\* esp_init took esp_callback_func as the stack's callback.
EspRegistered == ResultOf("esp_init") = espOK

\* esp_conn_start took conn_callback_func as the connection's callback.
ConnRegistered == ResultOf("esp_conn_start") = espOK

Init ==
    /\ pc = "esp_init"
    /\ threadOps = <<>>
    /\ apTries = 0
    /\ nCalls = 0
    /\ lastCall = NoCall
    /\ closedSeen = {}
    /\ rejected = {}
    /\ recvd = [b \in Bufs |-> 0]
    /\ acked = [b \in Bufs |-> 0]
    /\ nReject = 0
    /\ nClose = 0
    /\ lastAnswer = NoRes
    /\ lastPc = "esp_init"
    /\ scen = ScenStart
    /\ trace = <<>>

(* ----------------------- the steps of init_thread ---------------------- *)

InitEsp ==
    /\ pc = "esp_init"
    /\ \E res \in Results :
          /\ threadOps' = threadOps \o StepEspInit(res)
          /\ pc' = AfterEspInit(res)
    /\ UNCHANGED <<apTries, callVars>>

ApCall ==
    /\ pc = "connect_ap"
    /\ threadOps' = Append(threadOps, connect_to_preferred_access_point(NoRes))
    /\ pc' = "ap_blocked"
    /\ UNCHANGED <<apTries, callVars>>

\* The access point refuses once more; the station call keeps trying.
ApRetry ==
    /\ pc = "ap_blocked"
    /\ apTries < MaxApTries
    /\ apTries' = apTries + 1
    /\ UNCHANGED <<pc, threadOps, callVars>>

ApReturn ==
    /\ pc = "ap_blocked"
    /\ threadOps' = [threadOps EXCEPT ![Len(threadOps)] =
                        connect_to_preferred_access_point(Discarded)]
    /\ pc' = "esp_conn_start"
    /\ apTries' = 0
    /\ UNCHANGED callVars

ConnStart ==
    /\ pc = "esp_conn_start"
    /\ \E res \in Results :
          /\ threadOps' = threadOps \o StepConnStart(res)
          /\ pc' = AfterConnStart(res)
    /\ UNCHANGED <<apTries, callVars>>

Terminate ==
    /\ pc = "terminate"
    /\ threadOps' = Append(threadOps, osThreadTerminate)
    /\ pc' = "done"
    /\ UNCHANGED <<apTries, callVars>>

(* ------------------------- callback invocations ------------------------ *)

\* The bookkeeping of one finished invocation c.
Account(c) ==
    LET sends  == OpsNamed(c.ops, "esp_conn_send")
        closes == OpsNamed(c.ops, "esp_conn_close")
        acks   == OpsNamed(c.ops, "esp_conn_recved")
        isConn == c.fn = "conn_callback_func"
    IN  /\ nCalls' = nCalls + 1
        /\ lastCall' = c
        /\ closedSeen' = closedSeen \cup
              (IF isConn /\ c.evt.type = ESP_EVT_CONN_CLOSED /\ c.evt.conn # NULL
                 THEN {c.evt.conn} ELSE {})
        /\ rejected' = rejected \cup
              {sends[i].conn : i \in {j \in DOMAIN sends : sends[j].res # espOK}}
        /\ recvd' = [b \in Bufs |->
              recvd[b] + (IF isConn /\ c.evt.type = ESP_EVT_CONN_DATA_RECV
                             /\ c.evt.pbuf = b THEN 1 ELSE 0)]
        /\ acked' = [b \in Bufs |->
              acked[b] + Len(SelectSeq(acks, LAMBDA o : o.pbuf = b))]
        /\ nReject' = nReject + Len(SelectSeq(sends, LAMBDA o : o.res # espOK))
        /\ nClose' = nClose + Len(closes)

\* The record of the circumstances of invocation c: what esp_conn_send was set
\* to answer, where init_thread stood, and how c stands to the exchange (an
\* event of conn_callback_func advances it or ends it, and the requests made
\* are kept for as long as it is followed).
Track(c, ans) ==
    /\ lastAnswer' = ans
    /\ lastPc' = pc
    /\ IF c.fn = "conn_callback_func"
         THEN IF ScenMatches(c.evt, ans)
                THEN scen' = ScenAdvance(c.evt) /\ trace' = trace \o Requests(c.ops)
                ELSE scen' = ScenOff /\ trace' = <<>>
         ELSE scen' = scen /\ trace' = (IF scen.on THEN trace \o Requests(c.ops) ELSE <<>>)

\* The answers esp_conn_send can give in an invocation for evt: both where the
\* invocation may call it, a single unused one elsewhere.
SendAnswers(evt) ==
    IF evt.type = ESP_EVT_CONN_ACTIVE /\ evt.conn # NULL THEN Results ELSE {espOK}

\* The versions the getters can report in an invocation for evt, likewise.
VersionAnswers(evt) ==
    IF evt.type = ESP_EVT_AT_VERSION_NOT_SUPPORTED THEN Versions ELSE {NoVer}

\* A handler that remembers which handles were reported closed and ignores
\* their later events.
M_ConnCallback_Remembers ==
    /\ ConnRegistered
    /\ nCalls < MaxCalls
    /\ \E evt \in ConnEvents :
          \E sendRes \in SendAnswers(evt) :
             LET c == IF evt.conn \in closedSeen
                        THEN Call("conn_callback_func", evt, <<>>, espOK)
                        ELSE conn_callback_func(evt, sendRes)
             IN  Account(c) /\ Track(c, sendRes)
    /\ UNCHANGED threadVars

\* The stack hands an event of the connection to conn_callback_func.
ConnCallback ==
    /\ ConnRegistered
    /\ nCalls < MaxCalls
    /\ \E evt \in ConnEvents :
          \E sendRes \in SendAnswers(evt) :
             /\ Account(conn_callback_func(evt, sendRes))
             /\ Track(conn_callback_func(evt, sendRes), sendRes)
    /\ UNCHANGED threadVars

\* A dispatcher that shares a lock with init_thread and so cannot run while
\* the thread sits in the station call.
M_EspCallback_WaitsForThread ==
    /\ EspRegistered
    /\ pc # "ap_blocked"
    /\ nCalls < MaxCalls
    /\ \E evt \in Events :
          \E v_min \in VersionAnswers(evt), v_curr \in VersionAnswers(evt) :
             /\ Account(esp_callback_func(evt, v_min, v_curr))
             /\ Track(esp_callback_func(evt, v_min, v_curr), NoRes)
    /\ UNCHANGED threadVars

\* The stack hands an event to esp_callback_func.
EspCallback ==
    /\ EspRegistered
    /\ nCalls < MaxCalls
    /\ \E evt \in Events :
          \E v_min \in VersionAnswers(evt), v_curr \in VersionAnswers(evt) :
             /\ Account(esp_callback_func(evt, v_min, v_curr))
             /\ Track(esp_callback_func(evt, v_min, v_curr), NoRes)
    /\ UNCHANGED threadVars

Next ==
    \/ InitEsp
    \/ ApCall
    \/ ApRetry
    \/ ApReturn
    \/ ConnStart
    \/ Terminate
    \/ ConnCallback
    \/ EspCallback

Spec == Init /\ [][Next]_vars

\* Once the station call has returned nothing init_thread calls blocks
\* (esp_conn_start is asked not to, osThreadTerminate ends the thread), so
\* the kernel runs its remaining steps.
SpecFair == Spec /\ WF_vars(ConnStart) /\ WF_vars(Terminate)

\* The stack hands conn_callback_func the next event of the exchange, on any
\* handle and with any buffer.
ScenarioCallback ==
    /\ ConnRegistered
    /\ \E evt \in ConnEvents :
          \E sendRes \in SendAnswers(evt) :
             /\ ScenMatches(evt, sendRes)
             /\ Account(conn_callback_func(evt, sendRes))
             /\ Track(conn_callback_func(evt, sendRes), sendRes)
    /\ UNCHANGED threadVars

NextScenario ==
    \/ InitEsp
    \/ ApCall
    \/ ApRetry
    \/ ApReturn
    \/ ConnStart
    \/ Terminate
    \/ ScenarioCallback
    \/ EspCallback

\* The runs in which the connection's events are those of the exchange, in
\* order and to its end, with init_thread and esp_callback_func as in Spec.
SpecScenario == Init /\ [][NextScenario]_vars

(* ------------------------- reading an invocation ---------------------- *)

\* The latest invocation is one of conn_callback_func for an event of type t.
LastConn(t) == lastCall.fn = "conn_callback_func" /\ lastCall.evt.type = t

\* The latest invocation is one of esp_callback_func for an event of type t.
LastEsp(t) == lastCall.fn = "esp_callback_func" /\ lastCall.evt.type = t

LastSends == OpsNamed(lastCall.ops, "esp_conn_send")

LastCloses == OpsNamed(lastCall.ops, "esp_conn_close")

LastAcks == OpsNamed(lastCall.ops, "esp_conn_recved")

LastRequests == Requests(lastCall.ops)

\* The latest invocation sent and the send was refused.
LastSendRejected == \E i \in DOMAIN LastSends : LastSends[i].res # espOK

\* A callback has just been invoked in this step.
Invoked == nCalls' = nCalls + 1

\* The requests the invocation of this step makes against handle h.
RequestsOn(h) == SelectSeq(Requests(lastCall'.ops), LAMBDA o : o.conn = h)

(* ------------------------------- claims -------------------------------- *)

\* C1: a buffer is never acknowledged (esp_conn_recved) more often than
\* data-received events carrying it were delivered to conn_callback_func, an
\* invocation acknowledges at most once, and what it acknowledges is the
\* buffer of the data-received event it is handling, on that event's handle.
Thm_C1 ==
    /\ \A b \in Bufs : acked[b] <= recvd[b]
    /\ Len(LastAcks) <= 1
    /\ \A i \in DOMAIN LastAcks :
          /\ LastConn(ESP_EVT_CONN_DATA_RECV)
          /\ LastAcks[i].pbuf = lastCall.evt.pbuf
          /\ LastAcks[i].conn = lastCall.evt.conn

\* The same buffer was delivered twice and acknowledged twice.
Wit_C1 == \E b \in Bufs : acked[b] = 2 /\ recvd[b] = 2 /\ Len(LastAcks) = 1

\* C2 as stated: every data-received event given to conn_callback_func,
\* also one whose handle does not resolve, has its buffer acknowledged
\* within the invocation.
Orig_C2 ==
    LastConn(ESP_EVT_CONN_DATA_RECV) =>
        \E i \in DOMAIN LastAcks : LastAcks[i].pbuf = lastCall.evt.pbuf

\* C2 as amended: a data-received event whose handle resolves has its buffer
\* acknowledged on that handle within the invocation, before anything else
\* is done with the buffer; one whose handle does not resolve is answered
\* espERR with no acknowledge.
Thm_C2 ==
    LastConn(ESP_EVT_CONN_DATA_RECV) =>
        IF lastCall.evt.conn # NULL
          THEN /\ LastAcks = <<esp_conn_recved(lastCall.evt.conn, lastCall.evt.pbuf)>>
               /\ lastCall.ops[1] = LastAcks[1]
          ELSE LastAcks = <<>> /\ lastCall.ret = espERR

Wit_C2 ==
    /\ LastConn(ESP_EVT_CONN_DATA_RECV)
    /\ lastCall.evt.conn # NULL
    /\ Len(LastAcks) = 1

\* C3: handling a connection-active event on a handle makes exactly one
\* esp_conn_send, of req_data on that handle, and that send is the first
\* request of the invocation: no close and no acknowledge comes before it.
Thm_C3 ==
    (LastConn(ESP_EVT_CONN_ACTIVE) /\ lastCall.evt.conn # NULL) =>
        /\ Len(LastSends) = 1
        /\ LastSends[1].conn = lastCall.evt.conn
        /\ LastSends[1].note = req_data
        /\ LastRequests[1] = LastSends[1]

\* A connection-active event was handled and its send refused, so that a
\* close was made in the same invocation.
Wit_C3 ==
    /\ LastConn(ESP_EVT_CONN_ACTIVE)
    /\ LastSendRejected
    /\ Len(LastCloses) = 1

\* C4 as stated: an invocation whose send is refused makes exactly one close,
\* on that handle, and no later invocation makes a send or an acknowledge on
\* a handle whose send was refused.
Orig_C4 ==
    [][Invoked =>
         /\ \A i \in DOMAIN OpsNamed(lastCall'.ops, "esp_conn_send") :
               LET snd == OpsNamed(lastCall'.ops, "esp_conn_send")[i]
               IN  snd.res # espOK =>
                      OpsNamed(lastCall'.ops, "esp_conn_close") = <<esp_conn_close(snd.conn)>>
         /\ \A h \in rejected :
               \A i \in DOMAIN RequestsOn(h) :
                  RequestsOn(h)[i].op \notin {"esp_conn_send", "esp_conn_recved"}]_vars

\* C5 as stated: once a closed event has been handled for a handle, no later
\* invocation makes a send, close or acknowledge on that handle.
Orig_C5 == [][Invoked => \A h \in closedSeen : RequestsOn(h) = <<>>]_vars

\* C6 as stated: when esp_init fails the failure is printed and neither the
\* station call nor esp_conn_start is made.
Orig_C6 ==
    ResultOf("esp_init") = espERR =>
        /\ OpsNamed(threadOps, "printf") # <<>>
        /\ OpsNamed(threadOps, "connect_to_preferred_access_point") = <<>>
        /\ OpsNamed(threadOps, "esp_conn_start") = <<>>

\* The library calls of init_thread other than printf, by name.
ThreadCalls ==
    LET calls == SelectSeq(threadOps, LAMBDA o : o.op # "printf")
    IN  [i \in DOMAIN calls |-> calls[i].op]

ThreadOrder ==
    <<"esp_init", "connect_to_preferred_access_point", "esp_conn_start",
      "osThreadTerminate">>

\* C7: init_thread calls esp_init, the station call and esp_conn_start in
\* that order, esp_conn_start only once the station call has returned, and
\* esp_conn_start at most once whatever it answers.
Thm_C7 ==
    /\ Len(ThreadCalls) <= Len(ThreadOrder)
    /\ \A i \in DOMAIN ThreadCalls : ThreadCalls[i] = ThreadOrder[i]
    /\ Len(OpsNamed(threadOps, "esp_conn_start")) <= 1
    /\ OpsNamed(threadOps, "esp_conn_start") # <<>> =>
          ResultOf("connect_to_preferred_access_point") = Discarded

\* esp_conn_start failed and the thread went on to its end.
Wit_C7 == ResultOf("esp_conn_start") = espERR /\ pc = "done"

\* C8 as stated: an invocation whose send is refused does not return espOK.
Orig_C8 ==
    (lastCall.fn = "conn_callback_func" /\ LastSendRejected) => lastCall.ret # espOK

\* C9: handling ESP_EVT_AT_VERSION_NOT_SUPPORTED in esp_callback_func reads
\* the two versions, prints what it read, makes no request and returns espOK.
Thm_C9 ==
    LastEsp(ESP_EVT_AT_VERSION_NOT_SUPPORTED) =>
        /\ LastRequests = <<>>
        /\ lastCall.ret = espOK
        /\ \A i \in DOMAIN lastCall.ops :
              lastCall.ops[i].op \in
                 {"esp_get_min_at_fw_version", "esp_get_current_at_fw_version", "printf"}
        /\ Len(OpsNamed(lastCall.ops, "esp_get_min_at_fw_version")) = 1
        /\ Len(OpsNamed(lastCall.ops, "esp_get_current_at_fw_version")) = 1
        /\ \E i, j \in DOMAIN lastCall.ops :
              /\ lastCall.ops[i].op = "printf"
              /\ lastCall.ops[i].ver =
                    OpsNamed(lastCall.ops, "esp_get_min_at_fw_version")[1].ver
              /\ lastCall.ops[j].op = "printf"
              /\ lastCall.ops[j].ver =
                    OpsNamed(lastCall.ops, "esp_get_current_at_fw_version")[1].ver

\* The event was handled with minimum 2.0.0 and current 1.5.0.
Wit_C9 ==
    /\ LastEsp(ESP_EVT_AT_VERSION_NOT_SUPPORTED)
    /\ lastCall.ops[1].ver = <<2, 0, 0>>
    /\ lastCall.ops[2].ver = <<1, 5, 0>>

\* The latest invocation was for an event type its switch does not name.
LastUnrecognized ==
    \/ lastCall.fn = "conn_callback_func" /\ lastCall.evt.type \notin ConnEvtTypes
    \/ lastCall.fn = "esp_callback_func" /\ lastCall.evt.type \notin FwEvtTypes

\* C10 as stated: an event type the handler does not name makes no request
\* and returns espOK, in both callbacks.
Orig_C10 == LastUnrecognized => (LastRequests = <<>> /\ lastCall.ret = espOK)

\* C10 as amended: such an event makes no library call at all in either
\* callback; esp_callback_func returns espOK, and conn_callback_func returns
\* espOK when the event resolves to a handle and espERR when it does not.
Thm_C10 ==
    LastUnrecognized =>
        /\ lastCall.ops = <<>>
        /\ lastCall.ret =
              (IF lastCall.fn = "conn_callback_func" /\ lastCall.evt.conn = NULL
                 THEN espERR ELSE espOK)

\* conn_callback_func handled an unnamed event type on a handle.
Wit_C10 ==
    /\ lastCall.fn = "conn_callback_func"
    /\ lastCall.evt.type = ESP_EVT_OTHER
    /\ lastCall.evt.conn # NULL
    /\ lastCall.ret = espOK

\* The latest invocation called conn_callback_func itself for its event.
LastForwarded ==
    \E i \in DOMAIN lastCall.ops :
       /\ lastCall.ops[i].op = "conn_callback_func"
       /\ lastCall.ops[i].conn = lastCall.evt.conn

\* C11 as stated: esp_callback_func hands every connection or data event it
\* receives, with its handle, to conn_callback_func, and never a firmware
\* event.
Orig_C11 ==
    lastCall.fn = "esp_callback_func" =>
        (LastForwarded <=> lastCall.evt.type \in ConnEvtTypes)

\* C11 as amended: esp_callback_func hands no event on.  A connection or data
\* event given to it makes no library call and returns espOK; firmware events
\* are not handed on either.  conn_callback_func runs only for events the
\* stack gives it directly, which it does only once esp_conn_start has taken
\* it as the connection's callback.
Thm_C11 ==
    /\ lastCall.fn = "esp_callback_func" =>
          /\ OpsNamed(lastCall.ops, "conn_callback_func") = <<>>
          /\ lastCall.evt.type \in ConnEvtTypes =>
                (lastCall.ops = <<>> /\ lastCall.ret = espOK)
    /\ lastCall.fn = "conn_callback_func" => ConnRegistered

\* esp_callback_func was given a connection-active event on a handle.
Wit_C11 == LastEsp(ESP_EVT_CONN_ACTIVE) /\ lastCall.evt.conn # NULL

\* The places in the latest invocation where buffer b is touched.
TouchesOf(b) == {i \in DOMAIN lastCall.ops : lastCall.ops[i].pbuf = b}

\* The places in the latest invocation where a buffer is acknowledged.
AckPlaces == {i \in DOMAIN lastCall.ops : lastCall.ops[i].op = "esp_conn_recved"}

\* C12 as stated: in handling a data-received event, once the buffer has been
\* acknowledged nothing touches it any more, not even to read its length.
Orig_C12 ==
    LastConn(ESP_EVT_CONN_DATA_RECV) =>
        \A i \in AckPlaces :
           \A j \in TouchesOf(lastCall.ops[i].pbuf) : j <= i

\* C13: when the events on one handle are connection-active with the send
\* accepted, data-sent, data-received with one buffer and closed by the remote
\* side, the requests made are, in order, one esp_conn_send of req_data and
\* one esp_conn_recved of that buffer, both on that handle; no esp_conn_close
\* is made and the handle has been reported closed.
Thm_C13 ==
    (scen.on /\ scen.step = Len(ScenTypes)) =>
        /\ trace = <<esp_conn_send(scen.conn, req_data, espOK),
                     esp_conn_recved(scen.conn, scen.pbuf)>>
        /\ nClose = 0
        /\ scen.conn \in closedSeen

\* The exchange ran to its end on the last handle with the last buffer.
Wit_C13 ==
    /\ scen.on
    /\ scen.step = Len(ScenTypes)
    /\ scen.conn = NumHandles
    /\ scen.pbuf = NumBufs
    /\ LastConn(ESP_EVT_CONN_CLOSED)

\* C14: handling a data-sent event on a handle only prints: it makes no send,
\* close or acknowledge and returns espOK, whatever was handled before on that
\* handle, a refused send followed by a close included.
Thm_C14 ==
    (LastConn(ESP_EVT_CONN_DATA_SENT) /\ lastCall.evt.conn # NULL) =>
        /\ LastRequests = <<>>
        /\ \A i \in DOMAIN lastCall.ops : lastCall.ops[i].op = "printf"
        /\ lastCall.ret = espOK

\* A data-sent event was handled on a handle whose send had been refused and
\* for which the handler had asked for a close.
Wit_C14 ==
    /\ LastConn(ESP_EVT_CONN_DATA_SENT)
    /\ lastCall.evt.conn \in rejected
    /\ nClose >= 1

\* C15: once the station call has returned, init_thread reaches
\* osThreadTerminate whatever esp_init and esp_conn_start answered, that call
\* is its last, and it makes no call afterwards.
Thm_C15 ==
    /\ (pc = "esp_conn_start") ~> (pc = "done")
    /\ [](pc = "done" => threadOps[Len(threadOps)] = osThreadTerminate)
    /\ [][pc = "done" => UNCHANGED threadVars]_vars

\* The thread ended although both esp_init and esp_conn_start failed.
Wit_C15 ==
    /\ pc = "done"
    /\ ResultOf("esp_init") = espERR
    /\ ResultOf("esp_conn_start") = espERR

\* C16: while init_thread sits in connect_to_preferred_access_point, an event
\* for esp_callback_func can be handled, whichever it is (as long as calls are
\* still followed); a callback invocation completes in its one step without
\* touching anything of init_thread, and no step of init_thread touches
\* anything of the callbacks.
Thm_C16 ==
    /\ []((pc = "ap_blocked" /\ EspRegistered /\ nCalls < MaxCalls) =>
             ENABLED EspCallback)
    /\ [][Invoked => UNCHANGED threadVars]_vars
    /\ [][threadVars' # threadVars => UNCHANGED callVars]_vars

\* An event was handled by esp_callback_func while the thread sat in the
\* station call, which is still retrying.
Wit_C16 ==
    /\ pc = "ap_blocked"
    /\ apTries = MaxApTries
    /\ lastPc = "ap_blocked"
    /\ LastEsp(ESP_EVT_INIT_FINISH)

\* C17: esp_conn_close is called as often as a connection-active event had its
\* send refused, an invocation calls it exactly when its own send was refused,
\* and handling a closed event makes no request, forced or not.
Thm_C17 ==
    /\ nClose = nReject
    /\ Len(LastCloses) = (IF LastSendRejected THEN 1 ELSE 0)
    /\ LastCloses # <<>> => LastConn(ESP_EVT_CONN_ACTIVE)
    /\ LastConn(ESP_EVT_CONN_CLOSED) => LastRequests = <<>>

\* Two sends were refused and closed, and then a forced close was reported.
Wit_C17 ==
    /\ nClose = 2
    /\ nReject = 2
    /\ LastConn(ESP_EVT_CONN_CLOSED)
    /\ lastCall.evt.forced
    /\ lastCall.evt.conn # NULL

\* What an invocation of conn_callback_func asks of the transport and what it
\* returns, as a table over the event and the answer of esp_conn_send alone.
RequestsFor(evt, ans) ==
    CASE evt.conn = NULL -> <<>>
      [] evt.conn # NULL /\ evt.type = ESP_EVT_CONN_ACTIVE /\ ans = espOK ->
            <<esp_conn_send(evt.conn, req_data, ans)>>
      [] evt.conn # NULL /\ evt.type = ESP_EVT_CONN_ACTIVE /\ ans # espOK ->
            <<esp_conn_send(evt.conn, req_data, ans), esp_conn_close(evt.conn)>>
      [] evt.conn # NULL /\ evt.type = ESP_EVT_CONN_DATA_RECV ->
            <<esp_conn_recved(evt.conn, evt.pbuf)>>
      [] OTHER -> <<>>

ReturnFor(evt) == IF evt.conn = NULL THEN espERR ELSE espOK

\* C18: what conn_callback_func asks of the transport and what it returns are
\* fixed by the event and by the answer of esp_conn_send, whatever was handled
\* before; in particular the same event with the same answer, handled again
\* after a longer history, gives the same requests and the same result.
Thm_C18 ==
    /\ [](lastCall.fn = "conn_callback_func" =>
             /\ LastRequests = RequestsFor(lastCall.evt, lastAnswer)
             /\ lastCall.ret = ReturnFor(lastCall.evt))
    /\ [][(/\ Invoked
           /\ lastCall.fn = "conn_callback_func"
           /\ lastCall'.fn = "conn_callback_func"
           /\ lastCall'.evt = lastCall.evt
           /\ lastAnswer' = lastAnswer)
          => (/\ Requests(lastCall'.ops) = LastRequests
              /\ lastCall'.ret = lastCall.ret)]_vars

\* A connection-active event was served with a send on a handle that had
\* already been reported closed and had already had a send refused.
Wit_C18 ==
    /\ LastConn(ESP_EVT_CONN_ACTIVE)
    /\ lastCall.evt.conn \in closedSeen
    /\ lastCall.evt.conn \in rejected
    /\ lastAnswer = espOK
    /\ Len(LastSends) = 1

====
